---- MODULE Spec2Model ----
(***************************************************************************)
(* Observation API (src/app.py): a Flask application that stores           *)
(* geotagged observations in one relational table, guards its routes with  *)
(* a bearer token and offers single and bulk create/update handlers.       *)
(*                                                                         *)
(* Time is counted in whole hours since 1 January of year 0; a month has   *)
(* HoursPerMonth hours.  A datetime is modelled as the UTC instant it      *)
(* denotes (the tz-awareness of a datetime object is not represented).     *)
(* A JSON value is a record [k, n, s]: its kind, its number, its text.     *)
(***************************************************************************)
EXTENDS Integers, Sequences, FiniteSets, TLC

VARIABLES store, created_at, clock, issued, resp

vars == <<store, created_at, clock, issued, resp>>

----------------------------------------------------------------------------
(* Bounds of the model *)

HoursPerDay == 2
DaysPerMonth == 1
StartMonth == 5
MaxTicks == 2
MaxId == 2
MaxBatch == 3
MaxTokens == 2
MaxYears == 5

(* Program constants *)

TokenLifetime == 1
MonthsPerQuarter == 3

----------------------------------------------------------------------------
(* JSON values *)

Null == [k |-> "null", n |-> 0, s |-> ""]
Num(n) == [k |-> "num", n |-> n, s |-> ""]
Str(s) == [k |-> "str", n |-> 0, s |-> s]
\* a string holding the decimal text of n, such as "91"
NumStr(n) == [k |-> "numstr", n |-> n, s |-> ""]
\* an ISO 8601 string: local wall-clock hour n, designator s
\* ("Z", "" for none, "+01:00" or "-01:00")
TsStr(n, s) == [k |-> "ts", n |-> n, s |-> s]
\* a JSON object with the single key s and the number n as its value
Obj(s, n) == [k |-> "object", n |-> n, s |-> s]
\* a date-only ISO 8601 string: day n, no time of day
DateStr(n) == [k |-> "date", n |-> n, s |-> ""]

\* a nullable column or normalised field
None == [null |-> TRUE, v |-> Null]
Some(v) == [null |-> FALSE, v |-> v]

REQUIRED_FIELDS == <<"timestamp", "timezone", "latitude", "longitude", "satellite_id">>

Range(seq) == {seq[i] : i \in DOMAIN seq}

\* a request body: "nonjson" (no JSON content type), "null" (a falsy JSON
\* value, or unparsable JSON read silently), "array" (a non-empty JSON
\* array), "object" (a JSON object, obj its members)
Body(shape, obj) == [shape |-> shape, obj |-> obj]
IsDict(b) == b.shape = "object"

----------------------------------------------------------------------------
(* Helper functions *)

HoursPerMonth == HoursPerDay * DaysPerMonth

MonthStart(m) == m * HoursPerMonth

\* parse_iso8601 keeping the wall-clock time of a string with an offset
\* (replace(tzinfo) in place of astimezone)
parse_iso8601_KeepWallClock(value) ==
    IF value.k = "date" THEN [ok |-> TRUE, dt |-> value.n * HoursPerDay]
    ELSE IF value.k # "ts" THEN [ok |-> FALSE, dt |-> 0]
    ELSE IF value.s \in {"Z", "", "+01:00", "-01:00"} THEN [ok |-> TRUE, dt |-> value.n]
    ELSE [ok |-> FALSE, dt |-> 0]

\* [ok, dt]: datetime.fromisoformat on the value, converted to UTC
parse_iso8601(value) ==
    IF value.k = "date" THEN [ok |-> TRUE, dt |-> value.n * HoursPerDay]
    ELSE IF value.k # "ts" THEN [ok |-> FALSE, dt |-> 0]
    ELSE IF value.s = "Z" \/ value.s = "" THEN [ok |-> TRUE, dt |-> value.n]
    ELSE IF value.s = "+01:00" THEN [ok |-> TRUE, dt |-> value.n - 1]
    ELSE IF value.s = "-01:00" THEN [ok |-> TRUE, dt |-> value.n + 1]
    ELSE [ok |-> FALSE, dt |-> 0]

format_iso8601(dt) == TsStr(dt, "Z")

\* get_current_quarter_start dividing the month itself (month // 3 + 1)
get_current_quarter_start_MonthNotShifted(now) ==
    LET months == now \div HoursPerMonth
        year == months \div 12
        month == (months % 12) + 1
        quarter == (month \div MonthsPerQuarter) + 1
        start_month == MonthsPerQuarter * (quarter - 1) + 1
    IN  MonthStart(year * 12 + (start_month - 1))

get_current_quarter_start(now) ==
    LET months == now \div HoursPerMonth
        year == months \div 12
        month == (months % 12) + 1
        quarter == ((month - 1) \div MonthsPerQuarter) + 1
        start_month == MonthsPerQuarter * (quarter - 1) + 1
    IN  MonthStart(year * 12 + (start_month - 1))

is_historical_record(obs, now) == obs.timestamp < get_current_quarter_start(now)

\* [ok, f]: float(value)
ToFloat(value) ==
    IF value.k \in {"num", "numstr", "bool"} THEN [ok |-> TRUE, f |-> value.n]
    ELSE [ok |-> FALSE, f |-> 0]

\* str(value)
ToStr(value) == IF value.k = "str" THEN value ELSE [k |-> "str", n |-> value.n, s |-> value.k]

NonEmptyString(value) == value.k = "str" /\ value.s # ""

\* the required-field loop leaving at the first missing field
MissingErrors_FirstOnly(d, partial) ==
    IF partial THEN <<>>
    ELSE LET missing == {i \in DOMAIN REQUIRED_FIELDS : REQUIRED_FIELDS[i] \notin DOMAIN d}
         IN  IF missing = {} THEN <<>>
             ELSE <<<<"Missing required field",
                      REQUIRED_FIELDS[CHOOSE i \in missing : \A j \in missing : i <= j]>>>>

\* the "Missing required field" messages, in the order of REQUIRED_FIELDS
MissingErrors(d, partial) ==
    IF partial THEN <<>>
    ELSE LET missing(i) == REQUIRED_FIELDS[i] \notin DOMAIN d
             F[i \in 0..Len(REQUIRED_FIELDS)] ==
                 IF i = 0 THEN <<>>
                 ELSE IF missing(i)
                      THEN Append(F[i - 1], <<"Missing required field", REQUIRED_FIELDS[i]>>)
                      ELSE F[i - 1]
         IN  F[Len(REQUIRED_FIELDS)]

TimestampErrors(d) ==
    IF "timestamp" \in DOMAIN d /\ ~parse_iso8601(d["timestamp"]).ok
    THEN <<<<"Invalid. Must be ISO 8601 string", "timestamp">>>> ELSE <<>>

TimezoneErrors(d) ==
    IF "timezone" \in DOMAIN d /\ ~NonEmptyString(d["timezone"])
    THEN <<<<"Invalid. Must be non-empty string", "timezone">>>> ELSE <<>>

LatitudeErrors(d) ==
    IF "latitude" \in DOMAIN d /\ ~ToFloat(d["latitude"]).ok
    THEN <<<<"Invalid. Must be a number", "latitude">>>> ELSE <<>>

LongitudeErrors(d) ==
    IF "longitude" \in DOMAIN d /\ ~ToFloat(d["longitude"]).ok
    THEN <<<<"Invalid. Must be a number", "longitude">>>> ELSE <<>>

SatelliteErrors(d) ==
    IF "satellite_id" \in DOMAIN d /\ ~NonEmptyString(d["satellite_id"])
    THEN <<<<"Invalid. Must be non-empty string", "satellite_id">>>> ELSE <<>>

\* the normalised value of field f of a payload that has no error
NormalisedField(d, f) ==
    CASE f = "timestamp" -> parse_iso8601(d[f]).dt
      [] f = "timezone" -> d[f]
      [] f = "latitude" -> ToFloat(d[f]).f
      [] f = "longitude" -> ToFloat(d[f]).f
      [] f = "satellite_id" -> d[f]
      [] f = "spectral_indices" -> IF d[f].k = "null" THEN None ELSE Some(d[f])
      [] f = "notes" -> IF d[f].k = "null" THEN None ELSE Some(ToStr(d[f]))

NormalisedKeys(d) ==
    DOMAIN d \cap (Range(REQUIRED_FIELDS) \cup {"spectral_indices", "notes"})

\* validate_observation_payload returning at the first problem it meets
validate_observation_payload_FirstOnly(data, partial) ==
    IF ~IsDict(data)
    THEN [ok |-> FALSE, code |-> "INVALID_PAYLOAD",
          errors |-> <<<<"Request body must be a JSON object", "">>>>, normalised |-> <<>>]
    ELSE LET d == data.obj
             errors == MissingErrors(d, partial) \o TimestampErrors(d) \o TimezoneErrors(d)
                       \o LatitudeErrors(d) \o LongitudeErrors(d) \o SatelliteErrors(d)
         IN  IF errors # <<>>
             THEN [ok |-> FALSE, code |-> "VALIDATION_ERROR", errors |-> <<errors[1]>>,
                   normalised |-> <<>>]
             ELSE [ok |-> TRUE, code |-> "", errors |-> <<>>,
                   normalised |-> [f \in NormalisedKeys(d) |-> NormalisedField(d, f)]]

\* validate_observation_payload copying an "id" member into the normalised fields
validate_observation_payload_PassId(data, partial) ==
    IF ~IsDict(data)
    THEN [ok |-> FALSE, code |-> "INVALID_PAYLOAD",
          errors |-> <<<<"Request body must be a JSON object", "">>>>, normalised |-> <<>>]
    ELSE LET d == data.obj
             errors == MissingErrors(d, partial) \o TimestampErrors(d) \o TimezoneErrors(d)
                       \o LatitudeErrors(d) \o LongitudeErrors(d) \o SatelliteErrors(d)
         IN  IF errors # <<>>
             THEN [ok |-> FALSE, code |-> "VALIDATION_ERROR", errors |-> errors,
                   normalised |-> <<>>]
             ELSE [ok |-> TRUE, code |-> "", errors |-> <<>>,
                   normalised |-> [f \in NormalisedKeys(d) \cup ({"id"} \cap DOMAIN d) |->
                                      IF f = "id" THEN d[f].n ELSE NormalisedField(d, f)]]

\* [ok, code, errors, normalised]
validate_observation_payload(data, partial) ==
    IF ~IsDict(data)
    THEN [ok |-> FALSE, code |-> "INVALID_PAYLOAD",
          errors |-> <<<<"Request body must be a JSON object", "">>>>, normalised |-> <<>>]
    ELSE LET d == data.obj
             errors == MissingErrors(d, partial) \o TimestampErrors(d) \o TimezoneErrors(d)
                       \o LatitudeErrors(d) \o LongitudeErrors(d) \o SatelliteErrors(d)
         IN  IF errors # <<>>
             THEN [ok |-> FALSE, code |-> "VALIDATION_ERROR", errors |-> errors,
                   normalised |-> <<>>]
             ELSE [ok |-> TRUE, code |-> "", errors |-> <<>>,
                   normalised |-> [f \in NormalisedKeys(d) |-> NormalisedField(d, f)]]

observation_to_dict(obs) ==
    [id |-> obs.id,
     timestamp |-> format_iso8601(obs.timestamp),
     timezone |-> obs.timezone,
     latitude |-> obs.latitude,
     longitude |-> obs.longitude,
     satellite_id |-> obs.satellite_id,
     spectral_indices |-> obs.spectral_indices,
     notes |-> obs.notes]

\* normalised.get(f): the value, or None when the key is missing
Get(normalised, f) == IF f \in DOMAIN normalised THEN normalised[f] ELSE None

\* Observation(...) built from a fully validated payload; its id is not set
\* until the row is inserted
NewObservation(normalised) ==
    [timestamp |-> normalised["timestamp"],
     timezone |-> normalised["timezone"],
     latitude |-> normalised["latitude"],
     longitude |-> normalised["longitude"],
     satellite_id |-> normalised["satellite_id"],
     spectral_indices |-> Get(normalised, "spectral_indices"),
     notes |-> Get(normalised, "notes")]

\* the setattr loop clearing the nullable columns the payload does not name
\* (normalised.get(key) in place of the loop over normalised.items())
SetAttrs_ClearMissing(obs, normalised) ==
    [f \in DOMAIN obs |->
        IF f \in DOMAIN normalised THEN normalised[f]
        ELSE IF f \in {"spectral_indices", "notes"} THEN None ELSE obs[f]]

\* for key, value in normalised.items(): setattr(obs, key, value)
SetAttrs(obs, normalised) ==
    [f \in DOMAIN obs |-> IF f \in DOMAIN normalised THEN normalised[f] ELSE obs[f]]

\* the row as inserted: the store sets its primary key
Flush(id, obs) == [f \in DOMAIN obs \cup {"id"} |-> IF f = "id" THEN id ELSE obs[f]]

\* the primary key the store gives the next inserted row: one more than the
\* largest key in the table (the rowid rule of the default SQLite database)
NextId(st) ==
    IF DOMAIN st = {} THEN 1
    ELSE (CHOOSE i \in DOMAIN st : \A j \in DOMAIN st : j <= i) + 1

----------------------------------------------------------------------------
(* Auth helpers *)

NoToken == [sig |-> "none", sub |-> Null, iat |-> 0, exp |-> 0]
NoAuth == [scheme |-> "none", token |-> NoToken]
BasicAuth == [scheme |-> "basic", token |-> NoToken]
Bearer(t) == [scheme |-> "bearer", token |-> t]

\* jwt.encode with an expiry of twice the lifetime
jwt_encode_LongLived(sub, now) ==
    [sig |-> "app", sub |-> sub, iat |-> now, exp |-> now + 2 * TokenLifetime]

\* jwt.encode of the login payload with the application's secret
jwt_encode(sub, now) ==
    [sig |-> "app", sub |-> sub, iat |-> now, exp |-> now + TokenLifetime]

\* the outcomes of jwt.decode: the payload ("ok"), ExpiredSignatureError or
\* InvalidTokenError.  At the very instant exp the verdict depends on the
\* version of the JWT library (exp < now or exp <= now): both are outcomes.
jwt_decode(token, now) ==
    IF token.sig # "app" THEN {"invalid"}
    ELSE IF token.exp < now THEN {"expired"}
    ELSE IF token.exp = now THEN {"expired", "ok"}
    ELSE {"ok"}

\* jwt_required without the test of the header's scheme
jwt_required_NoSchemeTest(auth, now) ==
    IF auth.scheme # "bearer" THEN {""}
    ELSE {CASE o = "expired" -> "Token has expired."
            [] o = "invalid" -> "Invalid token."
            [] o = "ok" -> "" : o \in jwt_decode(auth.token, now)}

\* the verdicts of the jwt_required wrapper: "" lets the request through,
\* any other value is the message of its 401 response
jwt_required(auth, now) ==
    IF auth.scheme # "bearer" THEN {"Missing Bearer token."}
    ELSE {CASE o = "expired" -> "Token has expired."
            [] o = "invalid" -> "Invalid token."
            [] o = "ok" -> "" : o \in jwt_decode(auth.token, now)}

----------------------------------------------------------------------------
(* Responses *)

NoBody == [shape |-> "none", obj |-> <<>>]

Idle ==
    [op |-> "idle", auth |-> NoAuth, id |-> 0, body |-> NoBody, items |-> <<>>,
     now |-> 0, status |-> 0, json |-> TRUE, error |-> "", message |-> "",
     messages |-> <<>>, records |-> <<>>, errors |-> <<>>, token |-> NoToken]

\* a JSON response {"error": code, "message": ...}
ErrorJson(status, code, message, messages) ==
    [status |-> status, json |-> TRUE, error |-> code, message |-> message,
     messages |-> messages, records |-> <<>>, errors |-> <<>>, token |-> NoToken]

\* a JSON response carrying records and, for a bulk request, error descriptors
OkJson(status, records, errors) ==
    [status |-> status, json |-> TRUE, error |-> "", message |-> "",
     messages |-> <<>>, records |-> records, errors |-> errors, token |-> NoToken]

\* an exception no handler catches: PROPAGATE_EXCEPTIONS re-raises it to the
\* WSGI server, so the registered JSON 500 handler does not answer
Unhandled ==
    [status |-> 500, json |-> FALSE, error |-> "", message |-> "",
     messages |-> <<>>, records |-> <<>>, errors |-> <<>>, token |-> NoToken]

Unauthenticated(message) == ErrorJson(401, "UNAUTHENTICATED", message, <<>>)

NotJson == ErrorJson(400, "INVALID_PAYLOAD", "Request body must be JSON.", <<>>)
NotObject == ErrorJson(400, "INVALID_PAYLOAD", "Request body must be a JSON object.", <<>>)
NotFound == ErrorJson(404, "NOT_FOUND", "Observation not found.", <<>>)
ForbiddenModify ==
    ErrorJson(403, "FORBIDDEN", "Cannot modify records before the current quarter.", <<>>)
ForbiddenDelete ==
    ErrorJson(403, "FORBIDDEN", "Cannot delete records before the current quarter.", <<>>)
Invalid(v) == ErrorJson(400, v.code, "", v.errors)

\* what a handler returns: the committed store and the response
Result(st, ca, r) == [store |-> st, created_at |-> ca, r |-> r]

----------------------------------------------------------------------------
(* Handlers for observations: each maps the store it reads to the store it *)
(* commits and the response.  st: primary key -> row; ca: primary key ->   *)
(* the instant of the last insert under that key (kept when the row goes). *)

Insert(f, id, x) == [i \in DOMAIN f \cup {id} |-> IF i = id THEN x ELSE f[i]]
Remove(f, id) == [i \in DOMAIN f \ {id} |-> f[i]]

handle_observation_create(st, ca, now, body) ==
    IF body.shape = "nonjson" THEN Result(st, ca, NotJson)
    ELSE IF ~IsDict(body) THEN Result(st, ca, NotObject)
    ELSE LET v == validate_observation_payload(body, FALSE)
             id == NextId(st)
             obs == Flush(id, NewObservation(v.normalised))
         IN  IF ~v.ok THEN Result(st, ca, Invalid(v))
             ELSE Result(Insert(st, id, obs), Insert(ca, id, now),
                         OkJson(201, <<observation_to_dict(obs)>>, <<>>))

handle_observation_get(st, ca, obs_id) ==
    IF obs_id \notin DOMAIN st THEN Result(st, ca, NotFound)
    ELSE Result(st, ca, OkJson(200, <<observation_to_dict(st[obs_id])>>, <<>>))

\* handle_observation_put assigning only the fields the payload names
handle_observation_put_Merge(st, ca, now, obs_id, body) ==
    IF obs_id \notin DOMAIN st THEN Result(st, ca, NotFound)
    ELSE IF is_historical_record(st[obs_id], now) THEN Result(st, ca, ForbiddenModify)
    ELSE IF body.shape = "nonjson" THEN Result(st, ca, NotJson)
    ELSE IF ~IsDict(body) THEN Result(st, ca, NotObject)
    ELSE LET v == validate_observation_payload(body, FALSE)
             obs == SetAttrs(st[obs_id], v.normalised)
         IN  IF ~v.ok THEN Result(st, ca, Invalid(v))
             ELSE Result([st EXCEPT ![obs_id] = obs], ca,
                         OkJson(200, <<observation_to_dict(obs)>>, <<>>))

\* handle_observation_put examining the body before it looks the record up
handle_observation_put_BodyFirst(st, ca, now, obs_id, body) ==
    LET v == validate_observation_payload(body, FALSE)
        obs == SetAttrs(st[obs_id], NewObservation(v.normalised))
    IN  IF body.shape = "nonjson" THEN Result(st, ca, NotJson)
        ELSE IF ~IsDict(body) THEN Result(st, ca, NotObject)
        ELSE IF ~v.ok THEN Result(st, ca, Invalid(v))
        ELSE IF obs_id \notin DOMAIN st THEN Result(st, ca, NotFound)
        ELSE IF is_historical_record(st[obs_id], now) THEN Result(st, ca, ForbiddenModify)
        ELSE Result([st EXCEPT ![obs_id] = obs], ca,
                    OkJson(200, <<observation_to_dict(obs)>>, <<>>))

handle_observation_put(st, ca, now, obs_id, body) ==
    IF obs_id \notin DOMAIN st THEN Result(st, ca, NotFound)
    ELSE IF is_historical_record(st[obs_id], now) THEN Result(st, ca, ForbiddenModify)
    ELSE IF body.shape = "nonjson" THEN Result(st, ca, NotJson)
    ELSE IF ~IsDict(body) THEN Result(st, ca, NotObject)
    ELSE LET v == validate_observation_payload(body, FALSE)
             obs == SetAttrs(st[obs_id], NewObservation(v.normalised))
         IN  IF ~v.ok THEN Result(st, ca, Invalid(v))
             ELSE Result([st EXCEPT ![obs_id] = obs], ca,
                         OkJson(200, <<observation_to_dict(obs)>>, <<>>))

\* handle_observation_patch without the test of the quarter
handle_observation_patch_NoQuarterTest(st, ca, now, obs_id, body) ==
    IF obs_id \notin DOMAIN st THEN Result(st, ca, NotFound)
    ELSE IF body.shape = "nonjson" THEN Result(st, ca, NotJson)
    ELSE IF ~IsDict(body) THEN Result(st, ca, NotObject)
    ELSE LET v == validate_observation_payload(body, TRUE)
             obs == SetAttrs(st[obs_id], v.normalised)
         IN  IF ~v.ok THEN Result(st, ca, Invalid(v))
             ELSE Result([st EXCEPT ![obs_id] = obs], ca,
                         OkJson(200, <<observation_to_dict(obs)>>, <<>>))

handle_observation_patch(st, ca, now, obs_id, body) ==
    IF obs_id \notin DOMAIN st THEN Result(st, ca, NotFound)
    ELSE IF is_historical_record(st[obs_id], now) THEN Result(st, ca, ForbiddenModify)
    ELSE IF body.shape = "nonjson" THEN Result(st, ca, NotJson)
    ELSE IF ~IsDict(body) THEN Result(st, ca, NotObject)
    ELSE LET v == validate_observation_payload(body, TRUE)
             obs == SetAttrs(st[obs_id], v.normalised)
         IN  IF ~v.ok THEN Result(st, ca, Invalid(v))
             ELSE Result([st EXCEPT ![obs_id] = obs], ca,
                         OkJson(200, <<observation_to_dict(obs)>>, <<>>))

\* handle_observation_delete removing the row before it tests the quarter
handle_observation_delete_RemoveFirst(st, ca, now, obs_id) ==
    IF obs_id \notin DOMAIN st THEN Result(st, ca, NotFound)
    ELSE IF is_historical_record(st[obs_id], now)
    THEN Result(Remove(st, obs_id), ca, ForbiddenDelete)
    ELSE Result(Remove(st, obs_id), ca, OkJson(200, <<>>, <<>>))

handle_observation_delete(st, ca, now, obs_id) ==
    IF obs_id \notin DOMAIN st THEN Result(st, ca, NotFound)
    ELSE IF is_historical_record(st[obs_id], now) THEN Result(st, ca, ForbiddenDelete)
    ELSE Result(Remove(st, obs_id), ca, OkJson(200, <<>>, <<>>))

\* an error descriptor counting positions from one
BulkError_OneBased(idx, code, messages) ==
    [index |-> idx + 1, error |-> code, messages |-> messages]

BulkError(idx, code, messages) == [index |-> idx, error |-> code, messages |-> messages]

\* the loop of handle_bulk_create putting each new row at the head of created
BulkCreateLoop_NewestFirst(st, ca, now, records) ==
    LET F[k \in 0..Len(records)] ==
            IF k = 0 THEN [st |-> st, ca |-> ca, created |-> <<>>, errors |-> <<>>]
            ELSE LET prev == F[k - 1]
                     v == validate_observation_payload(records[k], FALSE)
                     id == NextId(prev.st)
                 IN  IF ~v.ok
                     THEN [prev EXCEPT !.errors =
                               Append(@, BulkError(k - 1, v.code, v.errors))]
                     ELSE [st |-> Insert(prev.st, id, Flush(id, NewObservation(v.normalised))),
                           ca |-> Insert(prev.ca, id, now),
                           created |-> <<id>> \o prev.created,
                           errors |-> prev.errors]
    IN  F

\* the loop of handle_bulk_create after its first k items: the session's
\* rows, the ids of the rows added, and the error descriptors
BulkCreateLoop(st, ca, now, records) ==
    LET F[k \in 0..Len(records)] ==
            IF k = 0 THEN [st |-> st, ca |-> ca, created |-> <<>>, errors |-> <<>>]
            ELSE LET prev == F[k - 1]
                     v == validate_observation_payload(records[k], FALSE)
                     id == NextId(prev.st)
                 IN  IF ~v.ok
                     THEN [prev EXCEPT !.errors =
                               Append(@, BulkError(k - 1, v.code, v.errors))]
                     ELSE [st |-> Insert(prev.st, id, Flush(id, NewObservation(v.normalised))),
                           ca |-> Insert(prev.ca, id, now),
                           created |-> Append(prev.created, id),
                           errors |-> prev.errors]
    IN  F

\* fault: an exception raised by the store while the batch is processed or
\* committed; nothing of the session is then committed
handle_bulk_create(st, ca, now, records, fault) ==
    LET end == BulkCreateLoop(st, ca, now, records)[Len(records)]
        body == [i \in 1..Len(end.created) |->
                    observation_to_dict(end.st[end.created[i]])]
    IN  IF fault THEN Result(st, ca, Unhandled)
        ELSE IF end.errors # <<>> THEN Result(end.st, end.ca, OkJson(207, body, end.errors))
        ELSE Result(end.st, end.ca, OkJson(201, body, <<>>))

\* record.get("id"): None when the key is missing or null
ItemId(record) == IF "id" \in DOMAIN record.obj THEN record.obj["id"] ELSE Null

\* dict(record) with "id" popped
WithoutId(record) ==
    Body(record.shape, [f \in DOMAIN record.obj \ {"id"} |-> record.obj[f]])

\* the loop of handle_bulk_update leaving at the first item in error
BulkUpdateLoop_StopAtError(st, now, records) ==
    LET F[k \in 0..Len(records)] ==
            IF k = 0 THEN [st |-> st, updated |-> <<>>, errors |-> <<>>]
            ELSE LET prev == F[k - 1]
                     record == records[k]
                     obs_id == ItemId(record)
                     v == validate_observation_payload(WithoutId(record), TRUE)
                     fail(code, messages) ==
                         [prev EXCEPT !.errors = Append(@, BulkError(k - 1, code, messages))]
                 IN  IF prev.errors # <<>> THEN prev
                     ELSE IF ~IsDict(record) THEN fail("INVALID_PAYLOAD", <<>>)
                     ELSE IF obs_id.k = "null" THEN fail("VALIDATION_ERROR", <<>>)
                     ELSE IF ~(obs_id.k = "num" /\ obs_id.n \in DOMAIN prev.st)
                     THEN fail("NOT_FOUND", <<>>)
                     ELSE IF is_historical_record(prev.st[obs_id.n], now)
                     THEN fail("FORBIDDEN", <<>>)
                     ELSE IF ~v.ok THEN fail(v.code, v.errors)
                     ELSE [st |-> [prev.st EXCEPT ![obs_id.n] = SetAttrs(@, v.normalised)],
                           updated |-> Append(prev.updated, obs_id.n),
                           errors |-> prev.errors]
    IN  F

\* the loop of handle_bulk_update testing the quarter on the rows as they
\* were before the batch
BulkUpdateLoop_RowsAsBefore(st, now, records) ==
    LET F[k \in 0..Len(records)] ==
            IF k = 0 THEN [st |-> st, updated |-> <<>>, errors |-> <<>>]
            ELSE LET prev == F[k - 1]
                     record == records[k]
                     obs_id == ItemId(record)
                     v == validate_observation_payload(WithoutId(record), TRUE)
                     fail(code, messages) ==
                         [prev EXCEPT !.errors = Append(@, BulkError(k - 1, code, messages))]
                 IN  IF ~IsDict(record) THEN fail("INVALID_PAYLOAD", <<>>)
                     ELSE IF obs_id.k = "null" THEN fail("VALIDATION_ERROR", <<>>)
                     ELSE IF ~(obs_id.k = "num" /\ obs_id.n \in DOMAIN prev.st)
                     THEN fail("NOT_FOUND", <<>>)
                     ELSE IF is_historical_record(st[obs_id.n], now)
                     THEN fail("FORBIDDEN", <<>>)
                     ELSE IF ~v.ok THEN fail(v.code, v.errors)
                     ELSE [st |-> [prev.st EXCEPT ![obs_id.n] = SetAttrs(@, v.normalised)],
                           updated |-> Append(prev.updated, obs_id.n),
                           errors |-> prev.errors]
    IN  F

\* the loop of handle_bulk_update after its first k items: the session's
\* rows, the ids of the rows updated, and the error descriptors
BulkUpdateLoop(st, now, records) ==
    LET F[k \in 0..Len(records)] ==
            IF k = 0 THEN [st |-> st, updated |-> <<>>, errors |-> <<>>]
            ELSE LET prev == F[k - 1]
                     record == records[k]
                     obs_id == ItemId(record)
                     v == validate_observation_payload(WithoutId(record), TRUE)
                     fail(code, messages) ==
                         [prev EXCEPT !.errors = Append(@, BulkError(k - 1, code, messages))]
                 IN  IF ~IsDict(record)
                     THEN fail("INVALID_PAYLOAD",
                               <<<<"Each bulk update item must be a JSON object", "">>>>)
                     ELSE IF obs_id.k = "null"
                     THEN fail("VALIDATION_ERROR", <<<<"Missing for bulk update item", "id">>>>)
                     ELSE IF ~(obs_id.k = "num" /\ obs_id.n \in DOMAIN prev.st)
                     THEN fail("NOT_FOUND", <<<<"Observation not found", "id">>>>)
                     ELSE IF is_historical_record(prev.st[obs_id.n], now)
                     THEN fail("FORBIDDEN",
                               <<<<"Cannot modify records before the current quarter", "">>>>)
                     ELSE IF ~v.ok THEN fail(v.code, v.errors)
                     ELSE [st |-> [prev.st EXCEPT ![obs_id.n] = SetAttrs(@, v.normalised)],
                           updated |-> Append(prev.updated, obs_id.n),
                           errors |-> prev.errors]
    IN  F

handle_bulk_update(st, ca, now, records, fault) ==
    LET end == BulkUpdateLoop(st, now, records)[Len(records)]
        body == [i \in 1..Len(end.updated) |->
                    observation_to_dict(end.st[end.updated[i]])]
    IN  IF fault THEN Result(st, ca, Unhandled)
        ELSE IF end.errors # <<>> THEN Result(end.st, ca, OkJson(207, body, end.errors))
        ELSE Result(end.st, ca, OkJson(200, body, <<>>))

\* the ids of a set in ascending order
Ascending(ids) ==
    LET F[k \in 0..Cardinality(ids)] ==
            IF k = 0 THEN <<>>
            ELSE LET rest == ids \ Range(F[k - 1])
                 IN  Append(F[k - 1], CHOOSE i \in rest : \A j \in rest : i <= j)
    IN  F[Cardinality(ids)]

\* request.args.get(name): [given, v]
Arg(args, name) ==
    IF name \in DOMAIN args THEN [given |-> TRUE, v |-> args[name]]
    ELSE [given |-> FALSE, v |-> Null]

\* a query-string value is text; "if start_ts_str:" skips the empty string
Truthy(arg) == arg.given /\ ~(arg.v.k = "str" /\ arg.v.s = "")

\* float(val) of a query-string value
ArgFloat(arg) ==
    IF arg.v.k = "numstr" THEN [ok |-> TRUE, f |-> arg.v.n] ELSE [ok |-> FALSE, f |-> 0]

FloatArgs == <<"min_lat", "max_lat", "min_lon", "max_lon">>

\* handle_observations_list with min_lat as an exclusive bound
handle_observations_list_Exclusive(st, ca, args) ==
    LET start == Arg(args, "start_timestamp")
        end == Arg(args, "end_timestamp")
        bad_date ==
            \/ Truthy(start) /\ ~parse_iso8601(start.v).ok
            \/ Truthy(end) /\ ~parse_iso8601(end.v).ok
        bad_floats ==
            {i \in DOMAIN FloatArgs :
                Arg(args, FloatArgs[i]).given /\ ~ArgFloat(Arg(args, FloatArgs[i])).ok}
        first_bad == CHOOSE i \in bad_floats : \A j \in bad_floats : i <= j
        bound(name) == ArgFloat(Arg(args, name)).f
        has(name) == Arg(args, name).given
        match(o) ==
            /\ Truthy(start) => o.timestamp >= parse_iso8601(start.v).dt
            /\ Truthy(end) => o.timestamp <= parse_iso8601(end.v).dt
            /\ has("min_lat") => o.latitude > bound("min_lat")
            /\ has("max_lat") => o.latitude <= bound("max_lat")
            /\ has("min_lon") => o.longitude >= bound("min_lon")
            /\ has("max_lon") => o.longitude <= bound("max_lon")
        ids == Ascending({i \in DOMAIN st : match(st[i])})
    IN  IF bad_date
        THEN Result(st, ca, ErrorJson(400, "VALIDATION_ERROR", "Invalid date filter", <<>>))
        ELSE IF bad_floats # {}
        THEN Result(st, ca, ErrorJson(400, "VALIDATION_ERROR", "Query param must be a number.",
                                      <<<<"must be a number", FloatArgs[first_bad]>>>>))
        ELSE Result(st, ca,
                    OkJson(200, [k \in DOMAIN ids |-> observation_to_dict(st[ids[k]])],
                           <<>>))

handle_observations_list(st, ca, args) ==
    LET start == Arg(args, "start_timestamp")
        end == Arg(args, "end_timestamp")
        bad_date ==
            \/ Truthy(start) /\ ~parse_iso8601(start.v).ok
            \/ Truthy(end) /\ ~parse_iso8601(end.v).ok
        bad_floats ==
            {i \in DOMAIN FloatArgs :
                Arg(args, FloatArgs[i]).given /\ ~ArgFloat(Arg(args, FloatArgs[i])).ok}
        first_bad == CHOOSE i \in bad_floats : \A j \in bad_floats : i <= j
        bound(name) == ArgFloat(Arg(args, name)).f
        has(name) == Arg(args, name).given
        match(o) ==
            /\ Truthy(start) => o.timestamp >= parse_iso8601(start.v).dt
            /\ Truthy(end) => o.timestamp <= parse_iso8601(end.v).dt
            /\ has("min_lat") => o.latitude >= bound("min_lat")
            /\ has("max_lat") => o.latitude <= bound("max_lat")
            /\ has("min_lon") => o.longitude >= bound("min_lon")
            /\ has("max_lon") => o.longitude <= bound("max_lon")
        ids == Ascending({i \in DOMAIN st : match(st[i])})
    IN  IF bad_date
        THEN Result(st, ca, ErrorJson(400, "VALIDATION_ERROR", "Invalid date filter", <<>>))
        ELSE IF bad_floats # {}
        THEN Result(st, ca, ErrorJson(400, "VALIDATION_ERROR", "Query param must be a number.",
                                      <<<<"must be a number", FloatArgs[first_bad]>>>>))
        ELSE Result(st, ca,
                    OkJson(200, [k \in DOMAIN ids |-> observation_to_dict(st[ids[k]])],
                           <<>>))

\* the view function of /api/observations/bulk
observations_bulk(st, ca, now, method, body, records, fault) ==
    IF body.shape = "nonjson" THEN Result(st, ca, NotJson)
    ELSE IF body.shape # "array"
    THEN Result(st, ca, ErrorJson(400, "INVALID_PAYLOAD",
                                  "Bulk operations require a JSON array of records.", <<>>))
    ELSE IF method = "POST" THEN handle_bulk_create(st, ca, now, records, fault)
    ELSE handle_bulk_update(st, ca, now, records, fault)

\* the view function of /health: {"status": "ok"}
health == [OkJson(200, <<>>, <<>>) EXCEPT !.message = "ok"]

\* the view function of /auth/login
ValidUsername == Str("admin")
ValidPassword == Str("password")

\* login rejecting only when both the username and the password are wrong
login_BothWrong(now, body) ==
    LET data == IF body.shape = "object" THEN body.obj ELSE <<>>
        username == IF "username" \in DOMAIN data THEN data["username"] ELSE Null
        password == IF "password" \in DOMAIN data THEN data["password"] ELSE Null
    IN  IF body.shape = "nonjson" THEN NotJson
        ELSE IF body.shape = "array" THEN Unhandled
        ELSE IF username # ValidUsername /\ password # ValidPassword
        THEN Unauthenticated("Invalid credentials.")
        ELSE [OkJson(200, <<>>, <<>>) EXCEPT !.token = jwt_encode(username, now)]

login(now, body) ==
    LET data == IF body.shape = "object" THEN body.obj ELSE <<>>
        username == IF "username" \in DOMAIN data THEN data["username"] ELSE Null
        password == IF "password" \in DOMAIN data THEN data["password"] ELSE Null
    IN  IF body.shape = "nonjson" THEN NotJson
        ELSE IF body.shape = "array" THEN Unhandled
        ELSE IF username # ValidUsername \/ password # ValidPassword
        THEN Unauthenticated("Invalid credentials.")
        ELSE [OkJson(200, <<>>, <<>>) EXCEPT !.token = jwt_encode(username, now)]

----------------------------------------------------------------------------
(* The state machine: a request is handled atomically (gate, handler,      *)
(* commit) and leaves its response in resp until Respond delivers it.      *)

\* the last hour of month StartMonth
StartClock == MonthStart(StartMonth + 1) - 1

Init ==
    /\ store = <<>>
    /\ created_at = <<>>
    /\ clock = StartClock
    /\ issued = {}
    /\ resp = Idle

Request(op, auth, id, body, items) ==
    [op |-> op, auth |-> auth, id |-> id, body |-> body, items |-> items, now |-> clock]

\* a route under @jwt_required: the wrapper answers 401 without calling the
\* view function, or calls it
Protected(op, auth, id, body, items, result) ==
    /\ resp.op = "idle"
    /\ \E verdict \in jwt_required(auth, clock) :
          IF verdict # ""
          THEN /\ resp' = Request(op, auth, id, NoBody, <<>>) @@ Unauthenticated(verdict)
               /\ UNCHANGED <<store, created_at>>
          ELSE /\ \A i \in DOMAIN result.store : i <= MaxId
               /\ store' = result.store
               /\ created_at' = result.created_at
               /\ resp' = Request(op, auth, id, body, items) @@ result.r
    /\ UNCHANGED <<clock, issued>>

Login(bodies) ==
    /\ resp.op = "idle"
    /\ \E body \in bodies :
          LET r == login(clock, body)
              tokens == IF r.status = 200 THEN issued \cup {r.token} ELSE issued
          IN  /\ Cardinality(tokens) <= MaxTokens
              /\ issued' = tokens
              /\ resp' = Request("login", NoAuth, 0, body, <<>>) @@ r
    /\ UNCHANGED <<store, created_at, clock>>

ObservationsList(auths, queries) ==
    \E auth \in auths, args \in queries :
        Protected("list", auth, 0, Body("query", args), <<>>,
                  handle_observations_list(store, created_at, args))

ObservationCreate(auths, bodies) ==
    \E auth \in auths, body \in bodies :
        Protected("create", auth, 0, body, <<>>,
                  handle_observation_create(store, created_at, clock, body))

\* GET /api/observations/<id> registered without the @jwt_required wrapper
ObservationGet_Open(auths, ids) ==
    /\ resp.op = "idle"
    /\ \E auth \in auths, id \in ids :
          resp' = Request("get", auth, id, NoBody, <<>>)
                      @@ handle_observation_get(store, created_at, id).r
    /\ UNCHANGED <<store, created_at, clock, issued>>

ObservationGet(auths, ids) ==
    \E auth \in auths, id \in ids :
        Protected("get", auth, id, NoBody, <<>>, handle_observation_get(store, created_at, id))

ObservationPut(auths, ids, bodies) ==
    \E auth \in auths, id \in ids, body \in bodies :
        Protected("put", auth, id, body, <<>>,
                  handle_observation_put(store, created_at, clock, id, body))

ObservationPatch(auths, ids, bodies) ==
    \E auth \in auths, id \in ids, body \in bodies :
        Protected("patch", auth, id, body, <<>>,
                  handle_observation_patch(store, created_at, clock, id, body))

ObservationDelete(auths, ids) ==
    \E auth \in auths, id \in ids :
        Protected("delete", auth, id, NoBody, <<>>,
                  handle_observation_delete(store, created_at, clock, id))

BulkShapes == {"nonjson", "null", "object", "array"}

\* the batches of at most MaxBatch items
Batches(items) == UNION {[1..n -> items] : n \in 0..MaxBatch}

ObservationsBulk(op, method, auths, items) ==
    \E auth \in auths, shape \in BulkShapes, fault \in BOOLEAN :
        \E records \in (IF shape = "array" THEN Batches(items) ELSE {<<>>}) :
            /\ fault => shape = "array"
            /\ Protected(op, auth, 0, Body(shape, <<>>), records,
                         observations_bulk(store, created_at, clock, method,
                                           Body(shape, <<>>), records, fault))

BulkCreate(auths, items) == ObservationsBulk("bulk_create", "POST", auths, items)

BulkUpdate(auths, items) == ObservationsBulk("bulk_update", "PATCH", auths, items)

\* /health has no wrapper: the header is not looked at
Health(auths) ==
    /\ resp.op = "idle"
    /\ \E auth \in auths : resp' = Request("health", auth, 0, NoBody, <<>>) @@ health
    /\ UNCHANGED <<store, created_at, clock, issued>>

\* an hour passes
Tick ==
    /\ resp.op = "idle"
    /\ clock < StartClock + MaxTicks
    /\ clock' = clock + 1
    /\ UNCHANGED <<store, created_at, issued, resp>>

\* the response is delivered
Respond ==
    /\ resp.op # "idle"
    /\ resp' = Idle
    /\ UNCHANGED <<store, created_at, clock, issued>>

----------------------------------------------------------------------------
(* Inputs *)

Ids == 1..MaxId

\* a token that is no JWT, and a well-formed one signed with another key
GarbageToken == [sig |-> "garbage", sub |-> Null, iat |-> 0, exp |-> 0]
ForgedToken == [sig |-> "other", sub |-> ValidUsername, iat |-> 0, exp |-> StartClock + MaxTicks + 1]

IssuedAuths == {Bearer(t) : t \in issued}
AllAuths == {NoAuth, BasicAuth, Bearer(GarbageToken), Bearer(ForgedToken)} \cup IssuedAuths

\* timestamps in the previous quarter, in the starting month and in the next month
TsMonths == {StartMonth - MonthsPerQuarter, StartMonth, StartMonth + 1}
ThisMonth == TsStr(MonthStart(StartMonth), "Z")
NextMonth == TsStr(MonthStart(StartMonth + 1), "Z")
LastQuarter == TsStr(MonthStart(StartMonth - MonthsPerQuarter), "Z")
Timestamps == {TsStr(MonthStart(m), "Z") : m \in TsMonths}
Latitudes == {Num(90), Num(91)}

FullObject(ts, lat) ==
    [timestamp |-> ts, timezone |-> Str("UTC"), latitude |-> lat,
     longitude |-> Num(-180), satellite_id |-> Str("S1")]

\* a member left out (<<>>) or given one of the values (<<v>>)
Choices(values) == {<<>>} \cup {<<v>> : v \in values}

Without(obj, f) == [g \in DOMAIN obj \ {f} |-> obj[g]]

FullObjects == {FullObject(ts, lat) : ts \in Timestamps, lat \in Latitudes}
InvalidObjects ==
    {Without(FullObject(ThisMonth, Num(90)), "satellite_id"),
     [FullObject(ThisMonth, Num(90)) EXCEPT !["latitude"] = Str("north")]}
PartialObjects ==
    {[timestamp |-> ts] : ts \in Timestamps}
        \cup {[latitude |-> lat] : lat \in Latitudes \cup {Null}}

NonObjects == {Body("nonjson", <<>>), Body("null", <<>>), Body("array", <<>>)}
Bodies ==
    NonObjects \cup {Body("object", o) : o \in FullObjects \cup InvalidObjects \cup PartialObjects}

LoginBodies ==
    NonObjects \cup
    {Body("object", o) :
        o \in {<<>>, [username |-> ValidUsername], [password |-> ValidPassword]}
                \cup {[username |-> u, password |-> pw] :
                         u \in {ValidUsername, Str("guest")},
                         pw \in {ValidPassword, Str("wrong")}}}

Queries == {<<>>, [min_lat |-> NumStr(91)], [max_lat |-> Str("")]}

MissingSatellite == Without(FullObject(ThisMonth, Num(90)), "satellite_id")

WithId(obj, id) == [f \in DOMAIN obj \cup {"id"} |-> IF f = "id" THEN Num(id) ELSE obj[f]]

\* the items of the bulk requests of Spec
CreateItems ==
    {Body("object", FullObject(NextMonth, Num(91))), Body("object", MissingSatellite)}
UpdateItems ==
    {Body("object", WithId([timestamp |-> LastQuarter], 1)),
     Body("object", WithId([latitude |-> Num(91)], 1)),
     Body("object", [latitude |-> Num(90)])}

Next ==
    \/ Login(LoginBodies)
    \/ ObservationsList(IssuedAuths, Queries)
    \/ ObservationCreate(IssuedAuths, Bodies)
    \/ ObservationGet(IssuedAuths, Ids)
    \/ ObservationPut(IssuedAuths, Ids, Bodies)
    \/ ObservationPatch(IssuedAuths, Ids, Bodies)
    \/ ObservationDelete(IssuedAuths, Ids)
    \/ BulkCreate(IssuedAuths, CreateItems)
    \/ BulkUpdate(IssuedAuths, UpdateItems)
    \/ Tick
    \/ Respond

Spec == Init /\ [][Next]_vars

----------------------------------------------------------------------------
(* The access gate: every kind of Authorization header on every route *)

AuthBodies == {Body("object", FullObject(ThisMonth, Num(90))), Body("nonjson", <<>>)}
AuthItems == {Body("object", WithId(FullObject(ThisMonth, Num(90)), 1))}

NextAuth ==
    \/ Login(LoginBodies)
    \/ ObservationsList(AllAuths, {<<>>})
    \/ ObservationCreate(AllAuths, AuthBodies)
    \/ ObservationGet(AllAuths, Ids)
    \/ ObservationPut(AllAuths, Ids, AuthBodies)
    \/ ObservationPatch(AllAuths, Ids, AuthBodies)
    \/ ObservationDelete(AllAuths, Ids)
    \/ BulkCreate(AllAuths, AuthItems)
    \/ BulkUpdate(AllAuths, AuthItems)
    \/ Health(AllAuths)
    \/ Tick
    \/ Respond

SpecAuth == Init /\ [][NextAuth]_vars

----------------------------------------------------------------------------
(* The bulk handlers on batches of up to MaxBatch items *)

BulkCreateItems ==
    {Body("object", FullObject(NextMonth, Num(91))),
     Body("object", FullObject(LastQuarter, Num(90))),
     Body("object", MissingSatellite)}

BulkUpdateItems ==
    {Body("object", WithId([timestamp |-> LastQuarter], 1)),
     Body("object", WithId([latitude |-> Num(90)], 1)),
     Body("object", WithId([latitude |-> Num(91)], 1)),
     Body("object", WithId([latitude |-> Null], 2)),
     Body("object", WithId([latitude |-> Num(90)], 2)),
     Body("object", [latitude |-> Num(90)])}

\* the clock stands still: the batches are what varies
NextBulk ==
    \/ Login(LoginBodies)
    \/ BulkCreate(IssuedAuths, BulkCreateItems)
    \/ BulkUpdate(IssuedAuths, BulkUpdateItems)
    \/ Respond

SpecBulk == Init /\ [][NextBulk]_vars

----------------------------------------------------------------------------
(* The life of single records: create, read, replace, merge and delete,    *)
(* with the clock standing still                                           *)

\* instants written with an offset ahead of UTC, one behind it, and none
WithOffset == TsStr(StartClock + 1, "+01:00")
Behind == TsStr(MonthStart(StartMonth) - 1, "-01:00")
NoOffset == TsStr(StartClock, "")

Annotated(obj) ==
    [f \in DOMAIN obj \cup {"spectral_indices", "notes"} |->
        IF f = "spectral_indices" THEN Obj("NDVI", 1)
        ELSE IF f = "notes" THEN Str("cloudy") ELSE obj[f]]

ItemFullObjects ==
    {FullObject(ThisMonth, Num(90)),
     WithId(Annotated(FullObject(WithOffset, Num(90))), MaxId),
     FullObject(Behind, Num(90)),
     FullObject(LastQuarter, Num(90))}
ItemPartialObjects ==
    {WithId([notes |-> Str("cloudy")], MaxId),
     [notes |-> Null],
     [spectral_indices |-> Null],
     [timestamp |-> NoOffset],
     [latitude |-> Null]}
ItemBodies ==
    {Body("nonjson", <<>>), Body("array", <<>>), Body("object", MissingSatellite)}
        \cup {Body("object", o) : o \in ItemFullObjects \cup ItemPartialObjects}
ItemUpdates ==
    {Body("object", WithId([notes |-> Str("cloudy")], 1)),
     Body("object", WithId([timestamp |-> Behind], MaxId))}
ItemLogins == {Body("object", [username |-> ValidUsername, password |-> ValidPassword])}

NextItem ==
    \/ Login(ItemLogins)
    \/ ObservationsList(IssuedAuths, {<<>>})
    \/ ObservationCreate(IssuedAuths, ItemBodies)
    \/ ObservationGet(IssuedAuths, Ids)
    \/ ObservationPut(IssuedAuths, Ids, ItemBodies)
    \/ ObservationPatch(IssuedAuths, Ids, ItemBodies)
    \/ ObservationDelete(IssuedAuths, Ids)
    \/ BulkUpdate(IssuedAuths, ItemUpdates)
    \/ Respond

SpecItem == Init /\ [][NextItem]_vars

----------------------------------------------------------------------------
(* The list handler and its query parameters, with the clock standing still *)

\* the day of the starting instant, and its first hour
Today == StartClock \div HoursPerDay
Midnight == TsStr(Today * HoursPerDay, "Z")
LastHour == TsStr(StartClock, "Z")

ListObject(ts, lat, lon, sat) ==
    [timestamp |-> ts, timezone |-> Str("UTC"), latitude |-> Num(lat),
     longitude |-> Num(lon), satellite_id |-> Str(sat)]

ListBodies ==
    {Body("object", ListObject(Midnight, 10, 5, "S1")),
     Body("object", ListObject(LastHour, 20, 5, "S2")),
     Body("object", ListObject(NextMonth, 30, 15, "S1"))}

\* the query string with the chosen bounds (each choice: <<>> or <<value>>)
BoxQuery(min_lat, max_lat, min_lon, max_lon) ==
    LET c == [min_lat |-> min_lat, max_lat |-> max_lat, min_lon |-> min_lon,
              max_lon |-> max_lon]
    IN  [f \in {g \in DOMAIN c : c[g] # <<>>} |-> c[f][1]]

BoxQueries ==
    {BoxQuery(a, b, c, d) :
        a \in Choices({NumStr(20)}), b \in Choices({NumStr(20)}),
        c \in Choices({NumStr(15)}), d \in Choices({NumStr(5), NumStr(4)})}

DateValues == {DateStr(Today), LastHour, Str(""), Str("soon")}
DateQueries ==
    {[start_timestamp |-> v] : v \in DateValues}
        \cup {[end_timestamp |-> v] : v \in DateValues}
        \cup {[start_timestamp |-> DateStr(Today), end_timestamp |-> DateStr(Today)],
              [start_date |-> DateStr(Today + 1)],
              [end_date |-> DateStr(Today - 1)]}

MalformedQueries ==
    {[min_lat |-> Str("north")], [max_lon |-> Str("")],
     [max_lat |-> Str("south"), min_lon |-> Str("west")]}

FieldQueries == {[satellite_id |-> Str("S2")], [id |-> NumStr(1)], [region |-> Str("EU")]}

ListQueries == BoxQueries \cup DateQueries \cup MalformedQueries \cup FieldQueries

NextList ==
    \/ Login(ItemLogins)
    \/ ObservationCreate(IssuedAuths, ListBodies)
    \/ ObservationDelete(IssuedAuths, Ids)
    \/ ObservationsList(IssuedAuths, ListQueries)
    \/ Respond

SpecList == Init /\ [][NextList]_vars

----------------------------------------------------------------------------
(* Full and partial payloads through every handler that validates, with    *)
(* the clock standing still                                                *)

Complete == FullObject(ThisMonth, Num(90))

WithSpectral(obj, v) ==
    [f \in DOMAIN obj \cup {"spectral_indices"} |->
        IF f = "spectral_indices" THEN v ELSE obj[f]]

RequiredBodies ==
    {Body("object", Complete),
     Body("object", WithSpectral(Complete, Obj("NDVI", 1))),
     Body("object", WithSpectral(Complete, Str("high"))),
     Body("object", [spectral_indices |-> Str("high")]),
     Body("object", Without(Complete, "latitude")),
     Body("object", Without(Without(Complete, "timestamp"), "satellite_id")),
     Body("object", [Complete EXCEPT !["longitude"] = Str("east")]),
     Body("object", <<>>),
     Body("object", [notes |-> Str("cloudy")]),
     Body("object", [timezone |-> Str("")]),
     Body("object", [timestamp |-> Str("yesterday"), notes |-> Str("cloudy")])}

RequiredCreateItems ==
    {Body("object", Complete),
     Body("object", Without(Complete, "latitude")),
     Body("object", Without(Without(Complete, "timestamp"), "satellite_id"))}

RequiredUpdateItems ==
    {Body("object", WithId([notes |-> Str("cloudy")], 1)),
     Body("object", WithId([timezone |-> Str("")], 1)),
     Body("object", WithId(<<>>, MaxId))}

NextRequired ==
    \/ Login(ItemLogins)
    \/ ObservationCreate(IssuedAuths, RequiredBodies)
    \/ ObservationPut(IssuedAuths, Ids, RequiredBodies)
    \/ ObservationPatch(IssuedAuths, Ids, RequiredBodies)
    \/ BulkCreate(IssuedAuths, RequiredCreateItems)
    \/ BulkUpdate(IssuedAuths, RequiredUpdateItems)
    \/ Respond

SpecRequired == Init /\ [][NextRequired]_vars

----------------------------------------------------------------------------
(* get_current_quarter_start on its own: the current instant is drawn in   *)
(* the initial state from the first MaxYears years                         *)

InitQuarter ==
    /\ store = <<>>
    /\ created_at = <<>>
    /\ clock \in 0..(MonthStart(12 * MaxYears) - 1)
    /\ issued = {}
    /\ resp = Idle

QuarterStart ==
    /\ resp.op = "idle"
    /\ resp' = [Idle EXCEPT !.op = "quarter_start", !.now = clock,
                            !.id = get_current_quarter_start(clock)]
    /\ UNCHANGED <<store, created_at, clock, issued>>

NextQuarter == QuarterStart

SpecQuarter == InitQuarter /\ [][NextQuarter]_vars

----------------------------------------------------------------------------
(* Requests that are refused: every kind of 4xx answer on every route,     *)
(* with the clock standing still                                           *)

RefusedAuths == IssuedAuths \cup {NoAuth}

RefusedBodies ==
    {Body("nonjson", <<>>), Body("array", <<>>), Body("null", <<>>),
     Body("object", Complete),
     Body("object", FullObject(LastQuarter, Num(90))),
     Body("object", Without(Complete, "latitude")),
     Body("object", [timezone |-> Str("")]),
     Body("object", [timezone |-> Str("CET")])}

RefusedItems == {Body("object", WithId([timezone |-> Str("CET")], 1))}

NextRefused ==
    \/ Login(ItemLogins)
    \/ ObservationsList(RefusedAuths, {<<>>, [min_lat |-> Str("north")]})
    \/ ObservationCreate(RefusedAuths, RefusedBodies)
    \/ ObservationGet(RefusedAuths, Ids)
    \/ ObservationPut(RefusedAuths, Ids, RefusedBodies)
    \/ ObservationPatch(RefusedAuths, Ids, RefusedBodies)
    \/ ObservationDelete(RefusedAuths, Ids)
    \/ BulkCreate(RefusedAuths, {Body("object", Complete)})
    \/ BulkUpdate(RefusedAuths, RefusedItems)
    \/ Respond

SpecRefused == Init /\ [][NextRefused]_vars

----------------------------------------------------------------------------
(* Records of this quarter and of the last one, with the clock passing     *)
(* from the second quarter into the third                                  *)

HistoryBodies ==
    {Body("object", FullObject(ThisMonth, Num(90))),
     Body("object", FullObject(LastQuarter, Num(90))),
     Body("object", [timestamp |-> LastQuarter])}

HistoryUpdateItems == {Body("object", WithId([timestamp |-> LastQuarter], 1))}

NextHistory ==
    \/ Login(ItemLogins)
    \/ ObservationCreate(IssuedAuths, HistoryBodies)
    \/ ObservationPut(IssuedAuths, Ids, HistoryBodies)
    \/ ObservationPatch(IssuedAuths, Ids, HistoryBodies)
    \/ ObservationDelete(IssuedAuths, Ids)
    \/ BulkUpdate(IssuedAuths, HistoryUpdateItems)
    \/ Tick
    \/ Respond

SpecHistory == Init /\ [][NextHistory]_vars

----------------------------------------------------------------------------
(* validate_observation_payload on its own: the payload is drawn in the    *)
(* initial state and validated in full or in partial mode                  *)

LatitudeValues ==
    {Num(-91), Num(-90), Num(0), Num(90), Num(91), NumStr(91), Str("north"), Null}
LongitudeValues == {Num(-181), Num(-180), Num(180), Num(181), Str("east")}
TimestampValues ==
    {ThisMonth, TsStr(StartClock, "+01:00"), DateStr(StartMonth * DaysPerMonth),
     Str("yesterday")}
TimezoneValues == {Str("UTC"), Str("")}
SatelliteValues == {Str("S1")}
SpectralValues == {Obj("NDVI", 1), Null}
NotesValues == {Str("cloudy"), Num(5)}

\* the JSON object with the chosen members (each choice: <<>> or <<value>>)
Members(ts, tz, lat, lon, sat, si, notes) ==
    LET c == [timestamp |-> ts, timezone |-> tz, latitude |-> lat,
              longitude |-> lon, satellite_id |-> sat, spectral_indices |-> si,
              notes |-> notes]
    IN  [f \in {g \in DOMAIN c : c[g] # <<>>} |-> c[f][1]]

ValidateBodies ==
    {Body("array", <<>>)} \cup
    {Body("object", Members(ts, tz, lat, lon, sat, si, notes)) :
        ts \in Choices(TimestampValues), tz \in Choices(TimezoneValues),
        lat \in Choices(LatitudeValues), lon \in Choices(LongitudeValues),
        sat \in Choices(SatelliteValues), si \in Choices(SpectralValues),
        notes \in Choices(NotesValues)}

InitValidate ==
    /\ store = <<>>
    /\ created_at = <<>>
    /\ clock = StartClock
    /\ issued = {}
    /\ resp \in {[Idle EXCEPT !.op = "payload", !.body = b] : b \in ValidateBodies}

Validate(op, partial) ==
    /\ resp.op = "payload"
    /\ LET v == validate_observation_payload(resp.body, partial)
       IN  resp' = [resp EXCEPT !.op = op,
                                !.status = IF v.ok THEN 200 ELSE 400,
                                !.error = v.code,
                                !.messages = v.errors,
                                !.records = IF v.ok THEN <<v.normalised>> ELSE <<>>]
    /\ UNCHANGED <<store, created_at, clock, issued>>

ValidateFull == Validate("validate_full", FALSE)

ValidatePartial == Validate("validate_partial", TRUE)

NextValidate == ValidateFull \/ ValidatePartial

SpecValidate == InitValidate /\ [][NextValidate]_vars

----------------------------------------------------------------------------
(* Properties *)

ProtectedOps ==
    {"list", "create", "get", "put", "patch", "delete", "bulk_create", "bulk_update"}

\* the request answered in the next state passed the access gate
Admitted == resp.op = "idle" /\ resp'.op \in ProtectedOps /\ resp'.status # 401

\* C1: a record inserted before the start of the current quarter answers
\* every PUT, PATCH and DELETE that passes the gate with 403 FORBIDDEN and
\* stays in the store unchanged, whatever its timestamp field and the body.
C1_CreatedBeforeQuarterIsImmutable ==
    [][(/\ Admitted
        /\ resp'.op \in {"put", "patch", "delete"}
        /\ resp'.id \in DOMAIN store
        /\ created_at[resp'.id] < get_current_quarter_start(clock))
       => (resp'.status = 403 /\ resp'.error = "FORBIDDEN" /\ store' = store)]_vars

\* C2: a request to a protected route whose Authorization header is absent
\* or does not start with "Bearer " is answered 401 UNAUTHENTICATED and the
\* stored records are the same before and after it.
C2_NoBearerNoHandler ==
    [][(resp.op = "idle" /\ resp'.op \in ProtectedOps /\ resp'.auth.scheme # "bearer")
       => (/\ resp'.status = 401
           /\ resp'.error = "UNAUTHENTICATED"
           /\ resp'.records = <<>>
           /\ store' = store /\ created_at' = created_at)]_vars

C2_Witness ==
    /\ resp.op \in {"put", "delete", "bulk_update"}
    /\ resp.auth.scheme \in {"none", "basic"}
    /\ resp.status = 401
    /\ resp.id \in DOMAIN store \/ 1 \in DOMAIN store

\* C3: a token issued by login at instant t passes the gate on every
\* protected request before t + TokenLifetime and is answered 401 on every
\* request after it; a malformed or wrongly signed token is answered 401 at
\* any instant; the expiry of an issued token is fixed when it is issued.
C3_TokenLifetime ==
    /\ \A t \in issued : t.exp = t.iat + TokenLifetime /\ t.sig = "app"
    /\ (resp.op \in ProtectedOps /\ resp.auth.scheme = "bearer") =>
          LET t == resp.auth.token
          IN  /\ (t \in issued /\ resp.now < t.iat + TokenLifetime) => resp.status # 401
              /\ (t \in issued /\ resp.now > t.iat + TokenLifetime) =>
                     (resp.status = 401 /\ resp.error = "UNAUTHENTICATED")
              /\ t.sig # "app" => (resp.status = 401 /\ resp.error = "UNAUTHENTICATED")

C3_Witness ==
    /\ resp.op \in ProtectedOps
    /\ resp.auth.token \in issued
    /\ resp.now > resp.auth.token.iat + TokenLifetime
    /\ resp.status = 401
    /\ resp.message = "Token has expired."

\* the credentials a login body submits: None for a missing member
Submitted(body, name) ==
    IF body.shape = "object" /\ name \in DOMAIN body.obj THEN body.obj[name] ELSE Null

CredentialsMatch(body) ==
    Submitted(body, "username") = ValidUsername /\ Submitted(body, "password") = ValidPassword

C5_StoredCoordinatesInRange ==
    \A id \in DOMAIN store :
        /\ store[id].latitude \in -90..90
        /\ store[id].longitude \in -180..180

\* C6: with every other field valid, validate_observation_payload accepts
\* the payload when the supplied latitude is within [-90, 90] and the
\* longitude within [-180, 180], and rejects it with a VALIDATION_ERROR
\* naming the field when either is out of range, in full and partial mode.
C6_RangeChecked ==
    LET d == resp.body.obj
        others == validate_observation_payload(
                      Body("object", Without(Without(d, "latitude"), "longitude")), TRUE)
        numeric(f) == f \in DOMAIN d /\ d[f].k = "num"
        outside(f, limit) == numeric(f) /\ d[f].n \notin (-limit)..limit
        complete == resp.op = "validate_partial" \/ Range(REQUIRED_FIELDS) \subseteq DOMAIN d
    IN  (/\ resp.op \in {"validate_full", "validate_partial"}
         /\ IsDict(resp.body) /\ complete /\ others.ok
         /\ \A f \in {"latitude", "longitude"} : f \in DOMAIN d => numeric(f))
        => IF outside("latitude", 90) \/ outside("longitude", 180)
           THEN /\ resp.status = 400
                /\ resp.error = "VALIDATION_ERROR"
                /\ \A f \in {"latitude", "longitude"} :
                       outside(f, IF f = "latitude" THEN 90 ELSE 180)
                           => \E i \in DOMAIN resp.messages : resp.messages[i][2] = f
           ELSE resp.status = 200

\* the request answered in the next state is a batch that op processed to its end
Completed(op) == Admitted /\ resp'.op = op /\ resp'.body.shape = "array" /\ resp'.status # 500

ErrorIndexes(r) == {r.errors[j].index : j \in DOMAIN r.errors}
StrictlyIncreasing(errors) ==
    \A j, k \in DOMAIN errors : j < k => errors[j].index < errors[k].index

\* the positions, in order, of the items of a batch that pass full validation
ValidPositions(items) ==
    LET F[k \in 0..Len(items)] ==
            IF k = 0 THEN <<>>
            ELSE IF validate_observation_payload(items[k], FALSE).ok
                 THEN Append(F[k - 1], k) ELSE F[k - 1]
    IN  F[Len(items)]

\* C7: bulk create persists exactly the items that pass full validation,
\* each retrievable by a later GET, and returns exactly one error descriptor
\* for each failing item, carrying its zero-based position; an invalid item
\* never prevents a valid item of the batch from being persisted.
C7_BulkCreateBestEffort ==
    [][Completed("bulk_create") =>
        LET items == resp'.items
            valid == ValidPositions(items)
            made == resp'.records
        IN  /\ ErrorIndexes(resp') = {i - 1 : i \in DOMAIN items \ Range(valid)}
            /\ StrictlyIncreasing(resp'.errors)
            /\ Len(made) = Len(valid)
            /\ \A k \in DOMAIN made :
                  /\ made[k].id \notin DOMAIN store
                  /\ \A j \in DOMAIN made : made[j].id = made[k].id => j = k
                  /\ made[k] = observation_to_dict(Flush(made[k].id,
                          NewObservation(
                              validate_observation_payload(items[valid[k]], FALSE).normalised)))
                  /\ handle_observation_get(store', created_at', made[k].id).r
                         = OkJson(200, <<made[k]>>, <<>>)
            /\ DOMAIN store' = DOMAIN store \cup {made[k].id : k \in DOMAIN made}
            /\ \A id \in DOMAIN store : store'[id] = store[id]]_vars

C7_Witness ==
    /\ resp.op = "bulk_create"
    /\ resp.status = 207
    /\ Len(resp.items) = 3
    /\ Len(resp.records) = 2
    /\ ErrorIndexes(resp) = {1}
    /\ \A k \in DOMAIN resp.records : resp.records[k].id \in DOMAIN store

\* C8: a bulk create answers 201 when every item is valid, 207 when some
\* item is valid and some item is not, and 400 when no item is valid.
C8_BulkCreateStatus ==
    (resp.op = "bulk_create" /\ resp.body.shape = "array" /\ resp.status \notin {401, 500}) =>
        LET n == Len(resp.items)
            valid == Len(ValidPositions(resp.items))
        IN  resp.status = IF valid = n THEN 201 ELSE IF valid > 0 THEN 207 ELSE 400

\* the target id of item i of a bulk update, 0 when it names none
Target(items, i) ==
    IF IsDict(items[i]) /\ ItemId(items[i]).k = "num" THEN ItemId(items[i]).n ELSE 0

\* the fields item i of a bulk update supplies, normalised
Supplied(items, i) == validate_observation_payload(WithoutId(items[i]), TRUE)

StoredFields ==
    {"timestamp", "timezone", "latitude", "longitude", "satellite_id", "spectral_indices",
     "notes"}

C10_BulkExceptionIsJsonInternal ==
    [][(resp.op = "idle" /\ resp'.op \in {"bulk_create", "bulk_update"} /\ resp'.status = 500)
       => (/\ store' = store
           /\ resp'.json
           /\ resp'.error \in {"INTERNAL", "INTERNAL_SERVER_ERROR"})]_vars

Deleted == DOMAIN created_at \ DOMAIN store

C13_PutIdempotent ==
    [][(Admitted /\ resp'.op = "put" /\ resp'.status = 200) =>
        LET again == handle_observation_put(store', created_at', clock', resp'.id, resp'.body)
        IN  /\ again.store = store'
            /\ again.r.status = 200
            /\ again.r.records = resp'.records]_vars

\* the hours a designator puts a wall-clock time ahead of UTC
OffsetHours(s) == IF s = "+01:00" THEN 1 ELSE IF s = "-01:00" THEN -1 ELSE 0

\* the UTC instant a timestamp string denotes
Instant(ts) == ts.n - OffsetHours(ts.s)

C15_PatchChangesOnlyNamedFields ==
    [][/\ (Admitted /\ resp'.op = "patch" /\ resp'.status = 200) =>
              /\ DOMAIN store' = DOMAIN store
              /\ \A id \in DOMAIN store \ {resp'.id} : store'[id] = store[id]
              /\ \A f \in StoredFields \ DOMAIN resp'.body.obj :
                    store'[resp'.id][f] = store[resp'.id][f]
       /\ Completed("bulk_update") =>
              /\ DOMAIN store' = DOMAIN store
              /\ \A id \in DOMAIN store, f \in StoredFields :
                    (\A i \in DOMAIN resp'.items :
                        Target(resp'.items, i) = id => f \notin DOMAIN resp'.items[i].obj)
                    => store'[id][f] = store[id][f]]_vars

C15_Witness ==
    /\ resp.op = "patch"
    /\ resp.status = 200
    /\ resp.body.obj = [timestamp |-> NoOffset]
    /\ store[resp.id].timestamp = StartClock
    /\ store[resp.id].notes = Some(Str("cloudy"))
    /\ store[resp.id].spectral_indices = Some(Obj("NDVI", 1))
    /\ \E id \in DOMAIN store : id # resp.id

\* the value a full payload gives a nullable column: null when it is omitted
Nullable(d, f) == IF f \in DOMAIN d /\ d[f].k # "null" THEN Some(d[f]) ELSE None

\* C16: a PUT on a mutable stored record is accepted only when the body has
\* all five required fields and they are valid; the record then holds the
\* normalised value of the body in every field, null in spectral_indices and
\* notes when the body omits them, and keeps nothing but its id; a PUT that is
\* not accepted changes nothing.
C16_PutReplaces ==
    [][(Admitted /\ resp'.op = "put" /\ resp'.id \in DOMAIN store
                /\ ~is_historical_record(store[resp'.id], clock)) =>
        LET d == resp'.body.obj
            id == resp'.id
            row == store'[id]
            acceptable ==
                /\ IsDict(resp'.body)
                /\ Range(REQUIRED_FIELDS) \subseteq DOMAIN d
                /\ d["timestamp"].k = "ts"
                /\ NonEmptyString(d["timezone"]) /\ NonEmptyString(d["satellite_id"])
                /\ d["latitude"].k = "num" /\ d["longitude"].k = "num"
        IN  IF acceptable
            THEN /\ resp'.status = 200
                 /\ row = [id |-> id,
                           timestamp |-> Instant(d["timestamp"]),
                           timezone |-> d["timezone"],
                           latitude |-> d["latitude"].n,
                           longitude |-> d["longitude"].n,
                           satellite_id |-> d["satellite_id"],
                           spectral_indices |-> Nullable(d, "spectral_indices"),
                           notes |-> Nullable(d, "notes")]
                 /\ resp'.records = <<observation_to_dict(row)>>
                 /\ DOMAIN store' = DOMAIN store
                 /\ \A i \in DOMAIN store \ {id} : store'[i] = store[i]
            ELSE resp'.status = 400 /\ store' = store]_vars

C16_Witness ==
    /\ resp.op = "put"
    /\ resp.status = 200
    /\ DOMAIN resp.body.obj = Range(REQUIRED_FIELDS)
    /\ store[resp.id].notes = None
    /\ store[resp.id].spectral_indices = None
    /\ store[resp.id].timestamp = Instant(Behind)
    /\ resp.body.obj["timestamp"] = Behind

\* the list request answered in resp passed the gate
Listed == resp.op = "list" /\ resp.status # 401

\* the ids of the records a list response shows
Shown == {resp.records[k].id : k \in DOMAIN resp.records}

\* C17: a list request with any of min_lat, max_lat, min_lon, max_lon is
\* answered 200 with exactly the stored records whose latitude and longitude
\* satisfy every given bound, each bound inclusive; with no such record the
\* answer is 200 with an empty list.
C17_BoundingBox ==
    LET q == resp.body.obj
        given(name) == name \in DOMAIN q
        inside(o) ==
            /\ given("min_lat") => q["min_lat"].n <= o.latitude
            /\ given("max_lat") => o.latitude <= q["max_lat"].n
            /\ given("min_lon") => q["min_lon"].n <= o.longitude
            /\ given("max_lon") => o.longitude <= q["max_lon"].n
        matching == {i \in DOMAIN store : inside(store[i])}
    IN  (/\ Listed
         /\ DOMAIN q \subseteq Range(FloatArgs)
         /\ \A name \in DOMAIN q : q[name].k = "numstr")
        => /\ resp.status = 200
           /\ Shown = matching
           /\ Len(resp.records) = Cardinality(matching)
           /\ \A k \in DOMAIN resp.records :
                 resp.records[k] = observation_to_dict(store[resp.records[k].id])

C17_Witness ==
    /\ Listed
    /\ resp.body.obj = [min_lat |-> NumStr(20), max_lat |-> NumStr(20)]
    /\ Cardinality(DOMAIN store) = 2
    /\ Len(resp.records) = 1
    /\ resp.records[1].latitude = 20

\* the date component of an instant: its day
DayOf(dt) == dt \div HoursPerDay

\* C18: a list request whose start and end bounds are dates is answered with
\* the stored records whose timestamp, whatever its time of day, falls on a
\* day from the start date to the end date, both included.
C18_DateRangeByDate ==
    LET q == resp.body.obj
        given(name) == name \in DOMAIN q
        inside(o) ==
            /\ given("start_timestamp") => q["start_timestamp"].n <= DayOf(o.timestamp)
            /\ given("end_timestamp") => DayOf(o.timestamp) <= q["end_timestamp"].n
    IN  (/\ Listed
         /\ DOMAIN q \subseteq {"start_timestamp", "end_timestamp"}
         /\ \A name \in DOMAIN q : q[name].k = "date")
        => /\ resp.status = 200
           /\ Shown = {i \in DOMAIN store : inside(store[i])}

NumericParams == {"min_lat", "max_lat", "min_lon", "max_lon"}
DateParams == {"start_timestamp", "end_timestamp"}

\* the parameters of a query whose value does not parse
Malformed(q) ==
    {name \in DOMAIN q \cap NumericParams : q[name].k # "numstr"}
        \cup {name \in DOMAIN q \cap DateParams : q[name].k \notin {"date", "ts"}}

\* C19: a list request with a numeric bound or date bound that does not
\* parse, the empty string included, is answered 400 with a message naming a
\* parameter that failed to parse; it is never answered with a list.
C19_MalformedFilterRejected ==
    (Listed /\ Malformed(resp.body.obj) # {}) =>
        /\ resp.status = 400
        /\ resp.records = <<>>
        /\ \E k \in DOMAIN resp.messages : resp.messages[k][2] \in Malformed(resp.body.obj)

ReservedParams == NumericParams \cup DateParams \cup {"start_date", "end_date", "id"}

\* the text of a text or number field of a record, as a query value gives it
FieldText(row, f) ==
    IF f \in {"timezone", "satellite_id"} THEN row[f]
    ELSE IF f \in {"id", "latitude", "longitude"} THEN NumStr(row[f])
    ELSE Null

\* C20: a list request with a parameter outside the reserved set is answered
\* with the stored records whose field of that name equals the value as text
\* (none when the records have no such field), and with the parameter id
\* only with the record of that identifier.
C20_FieldFilters ==
    LET q == resp.body.obj
        fields == DOMAIN q \ ReservedParams
        match(i) ==
            /\ \A f \in fields : f \in DOMAIN store[i] /\ FieldText(store[i], f) = q[f]
            /\ "id" \in DOMAIN q => q["id"].n = i
    IN  (Listed /\ DOMAIN q \cap (NumericParams \cup DateParams \cup {"start_date", "end_date"}) = {}
                /\ DOMAIN q # {})
        => /\ resp.status = 200
           /\ Shown = {i \in DOMAIN store : match(i)}

\* the payload in resp has been validated
Validated == resp.op \in {"validate_full", "validate_partial"}

\* the fields of a payload that are present and fail their check: a timestamp
\* that is no ISO 8601 string, a timezone or satellite_id that is no
\* non-empty string, a latitude or longitude that is no number
InvalidFields(d) ==
    {f \in DOMAIN d \cap {"timestamp"} : d[f].k \notin {"ts", "date"}}
        \cup {f \in DOMAIN d \cap {"timezone", "satellite_id"} : d[f].k # "str" \/ d[f].s = ""}
        \cup {f \in DOMAIN d \cap {"latitude", "longitude"} : d[f].k \notin {"num", "numstr"}}

\* the required fields a payload lacks
MissingFields(d) == Range(REQUIRED_FIELDS) \ DOMAIN d

\* the fields a sequence of messages names
Named(messages) == {messages[k][2] : k \in DOMAIN messages}

\* C21: validate_observation_payload returns one failure, whose message
\* names every missing required field and every field that is present and
\* invalid, each once, and returns none when there is no such field.
C21_AllProblemsReported ==
    (Validated /\ IsDict(resp.body)) =>
        LET d == resp.body.obj
            problems ==
                InvalidFields(d) \cup
                (IF resp.op = "validate_full" THEN MissingFields(d) ELSE {})
        IN  IF problems = {} THEN resp.status = 200 /\ resp.messages = <<>>
            ELSE /\ resp.status = 400
                 /\ resp.error = "VALIDATION_ERROR"
                 /\ resp.records = <<>>
                 /\ Named(resp.messages) = problems
                 /\ Len(resp.messages) = Cardinality(problems)

C21_Witness ==
    /\ resp.op = "validate_full"
    /\ resp.status = 400
    /\ MissingFields(resp.body.obj) = {"satellite_id", "longitude"}
    /\ InvalidFields(resp.body.obj) = {"timestamp", "timezone", "latitude"}
    /\ Len(resp.messages) = 5

\* the request answered in the next state reached the validation of op on a
\* stored record that is not historical
Examined(op) ==
    /\ Admitted /\ resp'.op = op /\ IsDict(resp'.body)
    /\ resp'.id \in DOMAIN store
    /\ ~is_historical_record(store[resp'.id], clock)

\* the response in the next state is a 400 whose message names every field the body lacks
RejectedNamingMissing ==
    /\ resp'.status = 400
    /\ resp'.error = "VALIDATION_ERROR"
    /\ MissingFields(resp'.body.obj) \subseteq Named(resp'.messages)
    /\ store' = store

\* a PATCH body, or a bulk update item without its id, is accepted exactly
\* when every field it has is valid
PartialAccepted(d) == InvalidFields(d) = {}

AllowedIndexNames == {"NDVI"}

\* a spectral_indices value that is a mapping from allowed names to numbers
\* (the number of an object value is numeric by construction)
WellFormedIndices(v) == v.k = "object" /\ v.s \in AllowedIndexNames

\* C23: every stored record that has spectral indices holds a mapping from
\* allowed index names to numbers, and a create, PUT or PATCH whose
\* spectral_indices is anything else is rejected.
C23_SpectralIndicesWellFormed ==
    /\ \A id \in DOMAIN store :
           ~store[id].spectral_indices.null => WellFormedIndices(store[id].spectral_indices.v)
    /\ (/\ resp.op \in {"create", "put", "patch"}
        /\ resp.status \notin {401, 403, 404}
        /\ IsDict(resp.body)
        /\ "spectral_indices" \in DOMAIN resp.body.obj
        /\ resp.body.obj["spectral_indices"].k # "null"
        /\ ~WellFormedIndices(resp.body.obj["spectral_indices"]))
       => resp.status = 400

MutatingOps == {"create", "put", "patch", "delete", "bulk_create", "bulk_update"}
ReadOps == {"list", "get"}

\* the header of the request in the next state carries a token that login
\* issued and that has not reached its expiry
ValidBearer ==
    /\ resp'.auth.scheme = "bearer"
    /\ resp'.auth.token \in issued
    /\ clock < resp'.auth.token.exp

\* the header of the request in the next state carries no token that login
\* issued, or one past its expiry
NoValidBearer ==
    \/ resp'.auth.scheme # "bearer"
    \/ resp'.auth.token \notin issued
    \/ clock > resp'.auth.token.exp

\* C24 as stated: POST, PUT, PATCH and DELETE on observations are answered
\* 401 without a valid bearer token, while GET list, GET by id and /health
\* are served without one.
C24_GateOnMutatingRoutesOnly ==
    [][resp.op = "idle" =>
        /\ (resp'.op \in MutatingOps /\ NoValidBearer) => resp'.status = 401
        /\ resp'.op \in ReadOps \cup {"health"} => resp'.status # 401]_vars

\* C24, amended: every route under /api/observations, the read routes GET
\* list and GET by id included, is answered 401 without a valid bearer token
\* and is served with one; /health is served without one.
C24_GateOnObservationRoutes ==
    [][resp.op = "idle" =>
        /\ (resp'.op \in MutatingOps \cup ReadOps /\ NoValidBearer) =>
              (resp'.status = 401 /\ resp'.error = "UNAUTHENTICATED" /\ store' = store)
        /\ (resp'.op \in MutatingOps \cup ReadOps /\ ValidBearer) => resp'.status # 401
        /\ resp'.op = "health" => (resp'.status = 200 /\ store' = store)]_vars

C24_Witness ==
    /\ resp.op = "get"
    /\ resp.auth = NoAuth
    /\ resp.id \in DOMAIN store
    /\ resp.status = 401
    /\ resp.records = <<>>

\* the year of an instant, and the first instant of month m (1..12) of year y
YearOf(dt) == dt \div (12 * HoursPerMonth)
FirstOf(y, m) == (12 * y + (m - 1)) * HoursPerMonth

\* C25: for every current instant get_current_quarter_start returns the
\* first instant of month 1, 4, 7 or 10 of the current year, no later than
\* the current instant and less than three months before it.
C25_QuarterStart ==
    resp.op = "quarter_start" =>
        LET now == resp.now
            start == resp.id
        IN  /\ \E m \in {1, 4, 7, 10} : start = FirstOf(YearOf(now), m)
            /\ start <= now
            /\ now < start + 3 * HoursPerMonth

C25_Witness ==
    /\ resp.op = "quarter_start"
    /\ resp.now = FirstOf(1, 4) - 1
    /\ resp.id = FirstOf(1, 1)

SingleOps == {"list", "create", "get", "put", "patch", "delete"}
BulkOps == {"bulk_create", "bulk_update"}
ClientErrors == {"INVALID_PAYLOAD", "VALIDATION_ERROR", "UNAUTHENTICATED", "FORBIDDEN", "NOT_FOUND"}

\* C26: a single-record request, or a bulk request whose body is no array,
\* that is answered with a 4xx status leaves the stored records, and every
\* field of them, as they were (the 4xx answers are INVALID_PAYLOAD,
\* VALIDATION_ERROR, UNAUTHENTICATED, FORBIDDEN and NOT_FOUND).
C26_RefusalChangesNothing ==
    [][(/\ resp.op = "idle"
        /\ \/ resp'.op \in SingleOps
           \/ resp'.op \in BulkOps /\ resp'.body.shape # "array"
        /\ resp'.status \in 400..499
        /\ resp'.error \in ClientErrors)
       => store' = store]_vars

C26_Witness ==
    /\ resp.op = "delete"
    /\ resp.status = 403
    /\ resp.id \in DOMAIN store
    /\ store[resp.id].timestamp < get_current_quarter_start(clock)

\* C27: being historical is absorbing. The clock never goes back, and a
\* stored record whose timestamp is before the start of the current quarter
\* is, after any step of the API or of the clock, still stored, with every
\* field as it was, and still before the start of the quarter.
C27_HistoricalIsAbsorbing ==
    [][/\ clock' >= clock
       /\ \A id \in DOMAIN store :
            is_historical_record(store[id], clock) =>
                /\ id \in DOMAIN store'
                /\ store'[id] = store[id]
                /\ is_historical_record(store'[id], clock')]_vars

\* a record of June, written in June, refused a PATCH in July
C27_Witness ==
    /\ resp.op = "patch"
    /\ resp.status = 403
    /\ clock > StartClock
    /\ resp.id \in DOMAIN store
    /\ store[resp.id].timestamp = MonthStart(StartMonth)
    /\ ~is_historical_record(store[resp.id], StartClock)

\* the body of the request is one the handler refuses: not JSON, not an
\* object, or an object that fails validation (full for PUT, partial for PATCH)
RefusedBody(op, body) ==
    \/ ~IsDict(body)
    \/ ~validate_observation_payload(body, op = "patch").ok

ErrorAt(r, i) == {r.errors[j].error : j \in {h \in DOMAIN r.errors : r.errors[h].index = i - 1}}

====
